---- MODULE Spec2Model ----
(***************************************************************************)
(* A model of python-jsonrpc-server: the JSON-RPC endpoint                 *)
(* (pyls_jsonrpc/endpoint.py) on its asyncio event loop, and the framed    *)
(* stream codec (streams.py): JsonRpcStreamWriter and JsonRpcStreamReader. *)
(*                                                                         *)
(* The endpoint: its two request maps, the futures and tasks they hold,    *)
(* the loop's queue of scheduled callbacks, and the log of messages handed *)
(* to the consumer.  The peer, the dispatcher's handlers and the caller of *)
(* request()/notify() are the environment: their choices are drawn with \E.*)
(* The consumer is taken not to raise.                                     *)
(*                                                                         *)
(* The codec: bytes, JSON text and values are modelled one by one, so that *)
(* lengths, encodings and parses are computed.  The callers of write() and *)
(* close(), and the peer feeding the reader, are the environment.          *)
(*                                                                         *)
(* Spec and FairSpec are the endpoint while its loop runs, ShutdownSpec    *)
(* adds shutdown(), WriterSpec is the writer, ReaderSpec the reader, and   *)
(* EndOfInputSpec the reader with close() on inputs that end early.        *)
(***************************************************************************)
EXTENDS Integers, Sequences, FiniteSets, TLC

(***************************************************************************)
(* Bounds of the model.                                                    *)
(***************************************************************************)
MaxCalls == 3        \* calls of consume, request and notify, all together
MaxWriters == 3      \* callers of the writer's write() and close()
MaxCutParts == 1     \* parts of an input whose last frame is cut short by EOF
MaxParts == 2        \* frames and other parts of an input stream

(***************************************************************************)
(* Python and JSON values.  Every value is a record, so that any two       *)
(* values can be compared.                                                 *)
(***************************************************************************)
None == [py |-> "None"]
StrId(n) == [s |-> n]             \* the JSON string id "n"
IntId(n) == [i |-> n]             \* the JSON integer id n
SomeParams == [key |-> "value"]   \* an application payload
SomeResult == [v |-> 1234]
SomeData == [d |-> 1234]

Get(message, key) == IF key \in DOMAIN message THEN message[key] ELSE None

JSONRPC_VERSION == "2.0"
CANCEL_METHOD == "$/cancelRequest"

(***************************************************************************)
(* The error model (pyls_jsonrpc/exceptions.py).  An exception is a record *)
(* with its class in .exc; a JSON-RPC exception also has code, message and *)
(* data.                                                                   *)
(***************************************************************************)
PARSE_ERROR == -32700
INVALID_REQUEST == -32600
METHOD_NOT_FOUND == -32601
INVALID_PARAMS == -32602
INTERNAL_ERROR == -32603
REQUEST_CANCELLED == -32800
SERVER_ERROR_START == -32099
SERVER_ERROR_END == -32000

IsJsonRpcException(e) == "code" \in DOMAIN e

PyException(name) == [exc |-> name]

JsonRpcException(kind, code, message, data) ==
    [exc |-> kind, code |-> code, message |-> message, data |-> data]

KindOfCode(code) ==
    CASE code = PARSE_ERROR -> "JsonRpcParseError"
      [] code = INVALID_REQUEST -> "JsonRpcInvalidRequest"
      [] code = METHOD_NOT_FOUND -> "JsonRpcMethodNotFound"
      [] code = INVALID_PARAMS -> "JsonRpcInvalidParams"
      [] code = INTERNAL_ERROR -> "JsonRpcInternalError"
      [] code = REQUEST_CANCELLED -> "JsonRpcRequestCancelled"
      [] code >= SERVER_ERROR_START /\ code <= SERVER_ERROR_END -> "JsonRpcServerError"
      [] OTHER -> "JsonRpcException"

to_dict(e) ==
    IF e.data = None
    THEN [code |-> e.code, message |-> e.message]
    ELSE [code |-> e.code, message |-> e.message, data |-> e.data]

from_dict(error) ==
    JsonRpcException(KindOfCode(error.code), error.code, error.message,
                     Get(error, "data"))

JsonRpcInvalidParams ==
    JsonRpcException("JsonRpcInvalidParams", INVALID_PARAMS, "Invalid Params", None)

JsonRpcRequestCancelled ==
    JsonRpcException("JsonRpcRequestCancelled", REQUEST_CANCELLED,
                     "Request Cancelled", None)

JsonRpcMethodNotFoundOf(method) ==
    JsonRpcException("JsonRpcMethodNotFound", METHOD_NOT_FOUND,
                     "Method Not Found", [method |-> method])

JsonRpcInternalErrorOf(e) ==
    JsonRpcException("JsonRpcInternalError", INTERNAL_ERROR, e.exc,
                     [traceback |-> e.exc])

(***************************************************************************)
(* Messages the endpoint builds.                                           *)
(***************************************************************************)
NotifyMessage(method, params) ==
    IF params # None
    THEN [jsonrpc |-> JSONRPC_VERSION, method |-> method, params |-> params]
    ELSE [jsonrpc |-> JSONRPC_VERSION, method |-> method]

RequestMessage(msg_id, method, params) ==
    IF params # None
    THEN [jsonrpc |-> JSONRPC_VERSION, id |-> msg_id, method |-> method,
          params |-> params]
    ELSE [jsonrpc |-> JSONRPC_VERSION, id |-> msg_id, method |-> method]

ResultMessage_string_id(msg_id, result) ==
    [jsonrpc |-> JSONRPC_VERSION,
     id |-> IF "i" \in DOMAIN msg_id THEN StrId(msg_id.i) ELSE msg_id,
     result |-> result]

ResultMessage(msg_id, result) ==
    [jsonrpc |-> JSONRPC_VERSION, id |-> msg_id, result |-> result]

ErrorMessage(msg_id, error) ==
    [jsonrpc |-> JSONRPC_VERSION, id |-> msg_id, error |-> error]

ErrorOf_wraps_all(e) == to_dict(JsonRpcInternalErrorOf(e))

\* The error object of the response to a request whose handling raised e:
\* a JsonRpcException as it is, anything else as an internal error.
ErrorOf(e) ==
    IF IsJsonRpcException(e) THEN to_dict(e) ELSE to_dict(JsonRpcInternalErrorOf(e))

(***************************************************************************)
(* The environment's alphabet.                                             *)
(***************************************************************************)
Dispatcher == {"methodName"}            \* the methods that have a handler
Methods == {"methodName", "unknownMethod"}
ParamValues == {None, SomeParams}

\* id_generator: the n-th call returns a fresh string
id_generator(n) == StrId(n)
OutIds == {id_generator(n) : n \in 1..MaxCalls}

\* ids the peer uses for its requests; StrId(1) is also an id of ours
InIds == {IntId(1), StrId(1)}

\* What a handler does when called: return a plain value, raise, or return
\* a coroutine, a pending asyncio.Future, or a plain callable.
HandlerOutcomes ==
    {[how |-> "return_value", val |-> SomeResult],
     [how |-> "raise", val |-> JsonRpcInvalidParams],
     [how |-> "raise", val |-> PyException("ValueError")],
     [how |-> "return_coroutine", val |-> None],
     [how |-> "return_future", val |-> None],
     [how |-> "return_callable", val |-> None]}

\* How a spawned handler can end
Completions ==
    {[state |-> "result", val |-> SomeResult],
     [state |-> "exception", val |-> JsonRpcInvalidParams],
     [state |-> "exception", val |-> PyException("ValueError")]}

\* Errors a peer serialises into a response: a known kind with data, one of
\* the server error range, and one with an unknown code
PeerErrors ==
    {JsonRpcException("JsonRpcInvalidRequest", INVALID_REQUEST,
                      "Invalid Request", SomeData),
     JsonRpcException("JsonRpcServerError", SERVER_ERROR_END, "Server Error", None),
     JsonRpcException("JsonRpcException", 1, "Unknown", None)}

ErrorObjects == {to_dict(e) : e \in PeerErrors}

VARIABLES
    client_request_futures, \* keys of _client_request_futures; the value of
                            \* key k is awaitables[k]
    server_request_futures, \* keys of _server_request_futures; the value of
                            \* key k is futures[k]
    awaitables,             \* what the handler of each inbound request returned
    futures,                \* the future of each outbound request
    next_id,                \* calls of the id generator so far, plus one
    request_calls,          \* where each call of request() stands
    ready,                  \* the loop's queue of scheduled callbacks
    sent,                   \* the messages handed to the consumer, in order
    handler_calls,          \* the calls of handlers, in order, each with
                            \* what the handler did
    handled,                \* per inbound request id, once consumed: what
                            \* its handler did when called
    calls,                  \* calls of consume, request and notify so far
    routed,                 \* the branch the latest consume call took
    raised,                 \* the exception that call raised to its caller
    loop_errors,            \* exceptions raised by callbacks run by the loop
    loop_state              \* "running", or "closed" once loop.close() was called

endpoint_vars ==
    <<client_request_futures, server_request_futures, awaitables, futures,
      next_id, request_calls, ready, sent, handler_calls, handled,
      calls, routed, raised, loop_errors, loop_state>>

\* The frame writer (streams.py, JsonRpcStreamWriter)
VARIABLES
    variant,                \* the package the writer is taken from:
                            \* "pyls_jsonrpc" (asyncio) or "jsonrpc" (threads)
    json_dumps_args,        \* the keyword arguments handed on to json.dumps
    wfile,                  \* the bytes written to the output stream, in order
    wfile_closed,           \* the output stream is closing or closed
    wfile_lock,             \* the caller holding _wfile_lock, 0 when free
    lock_waiters,           \* asyncio.Lock: the callers waiting, in order
    write_calls,            \* where each call of write() or close() stands
    lock_order              \* the write() calls in the order they got the lock

writer_vars ==
    <<variant, json_dumps_args, wfile, wfile_closed, wfile_lock, lock_waiters,
      write_calls, lock_order>>

\* The frame reader (pyls_jsonrpc/streams.py, JsonRpcStreamReader)
VARIABLES
    stream,                 \* what the peer sends, part by part
    unfed,                  \* the bytes of it that have not arrived yet
    rfile,                  \* the buffer of the asyncio.StreamReader
    rfile_eof,              \* feed_eof() was called on it
    listen_pc,              \* where listen() stands
    content_length,         \* _read_message: what _content_length returned
    request_str,            \* listen: the local of that name
    consumed,               \* the messages the consumer was called with
    listen_raised,          \* the exception listen() raised to its caller
    close_raised            \* the exception close() raised to its caller

reader_vars ==
    <<stream, unfed, rfile, rfile_eof, listen_pc, content_length,
      request_str, consumed, listen_raised, close_raised>>

vars == <<endpoint_vars, writer_vars, reader_vars>>

NoAwaitable == [kind |-> "none", state |-> "none", val |-> None,
                must_cancel |-> FALSE]
NoFuture == [state |-> "none", val |-> None]
Pending == [state |-> "pending", val |-> None]

EndpointInit ==
    /\ client_request_futures = {}
    /\ server_request_futures = {}
    /\ awaitables = [k \in InIds |-> NoAwaitable]
    /\ futures = [k \in OutIds |-> NoFuture]
    /\ next_id = 1
    /\ request_calls = [k \in OutIds |-> [pc |-> "idle", done_at_return |-> FALSE]]
    /\ ready = <<>>
    /\ sent = <<>>
    /\ handler_calls = <<>>
    /\ handled = [k \in InIds |-> None]
    /\ calls = 0
    /\ routed = "none"
    /\ raised = "none"
    /\ loop_errors = {}
    /\ loop_state = "running"

\* A writer nobody has called yet, on an open output stream
WriteCallers == 1..MaxWriters

NoCall == [pc |-> "idle", op |-> "none", message |-> None, contended |-> FALSE,
           raised |-> "none"]

WriterAtRest ==
    /\ wfile = <<>>
    /\ wfile_closed = FALSE
    /\ wfile_lock = 0
    /\ lock_waiters = <<>>
    /\ write_calls = [p \in WriteCallers |-> NoCall]
    /\ lock_order = <<>>

\* A reader nobody has called listen() on, on an empty input stream
Unbound == [py |-> "unbound"]

ReaderAtRest ==
    /\ unfed = <<>>
    /\ rfile = <<>>
    /\ rfile_eof = FALSE
    /\ listen_pc = "idle"
    /\ content_length = Unbound
    /\ request_str = Unbound
    /\ consumed = <<>>
    /\ listen_raised = "none"
    /\ close_raised = "none"

\* The endpoint on its own: the codec is at rest
Init ==
    /\ EndpointInit
    /\ variant = "pyls_jsonrpc"
    /\ json_dumps_args = [ensure_ascii |-> TRUE]
    /\ WriterAtRest
    /\ stream = <<>>
    /\ ReaderAtRest

Done(f) == f.state \in {"result", "exception", "cancelled"}

(***************************************************************************)
(* Endpoint.notify and Endpoint.request                                    *)
(***************************************************************************)
notify(method, params) ==
    /\ calls' = calls + 1
    /\ sent' = Append(sent, NotifyMessage(method, params))
    /\ UNCHANGED <<client_request_futures, server_request_futures, awaitables,
                   futures, next_id, request_calls, ready, handler_calls,
                   handled, routed, raised, loop_errors>>

request_records_nothing(method, params) ==
    LET msg_id == id_generator(next_id) IN
    /\ calls' = calls + 1
    /\ next_id' = next_id + 1
    /\ futures' = [futures EXCEPT ![msg_id] = Pending]
    /\ sent' = Append(sent, RequestMessage(msg_id, method, params))
    /\ request_calls' = [request_calls EXCEPT ![msg_id].pc = "awaiting_consumer"]
    /\ UNCHANGED <<client_request_futures, server_request_futures, awaitables,
                   ready, handler_calls, handled, routed, raised, loop_errors>>

\* request() up to its await of the consumer
request(method, params) ==
    LET msg_id == id_generator(next_id) IN
    /\ calls' = calls + 1
    /\ next_id' = next_id + 1
    /\ futures' = [futures EXCEPT ![msg_id] = Pending]
    /\ server_request_futures' = server_request_futures \cup {msg_id}
    /\ sent' = Append(sent, RequestMessage(msg_id, method, params))
    /\ request_calls' = [request_calls EXCEPT ![msg_id].pc = "awaiting_consumer"]
    /\ UNCHANGED <<client_request_futures, awaitables, ready, handler_calls,
                   handled, routed, raised, loop_errors>>

\* request() resumes after the consumer and returns the future
request_return(msg_id) ==
    /\ request_calls[msg_id].pc = "awaiting_consumer"
    /\ request_calls' = [request_calls EXCEPT ![msg_id] =
                            [pc |-> "returned",
                             done_at_return |-> Done(futures[msg_id])]]
    /\ UNCHANGED <<client_request_futures, server_request_futures, awaitables,
                   futures, next_id, ready, sent, handler_calls, handled,
                   calls, routed, raised, loop_errors>>

future_cancel_before_request(msg_id) ==
    /\ futures[msg_id].state \in {"none", "pending"}
    /\ futures' = [futures EXCEPT ![msg_id].state = "cancelled"]
    /\ ready' = Append(ready, [cb |-> "cancel_callback", id |-> msg_id])
    /\ UNCHANGED <<client_request_futures, server_request_futures, awaitables,
                   next_id, request_calls, sent, handler_calls, handled,
                   calls, routed, raised, loop_errors>>

\* The caller cancels the future request() returned.  cancel() of a future
\* that is done changes nothing.  The done callbacks are scheduled on the loop.
future_cancel(msg_id) ==
    /\ request_calls[msg_id].pc = "returned"
    /\ futures[msg_id].state = "pending"
    /\ futures' = [futures EXCEPT ![msg_id].state = "cancelled"]
    /\ ready' = Append(ready, [cb |-> "cancel_callback", id |-> msg_id])
    /\ UNCHANGED <<client_request_futures, server_request_futures, awaitables,
                   next_id, request_calls, sent, handler_calls, handled,
                   calls, routed, raised, loop_errors>>

cancel_callback_always(request_id) ==
    /\ ready' = Append(Tail(ready),
                       [cb |-> "task",
                        message |-> NotifyMessage(CANCEL_METHOD,
                                                  [id |-> request_id])])
    /\ UNCHANGED <<client_request_futures, server_request_futures, awaitables,
                   futures, next_id, request_calls, sent, handler_calls,
                   handled, calls, routed, raised, loop_errors>>

cancel_callback_inverted(request_id) ==
    /\ IF futures[request_id].state # "cancelled"
       THEN ready' = Append(Tail(ready),
                            [cb |-> "task",
                             message |-> NotifyMessage(CANCEL_METHOD,
                                                       [id |-> request_id])])
       ELSE ready' = Tail(ready)
    /\ UNCHANGED <<client_request_futures, server_request_futures, awaitables,
                   futures, next_id, request_calls, sent, handler_calls,
                   handled, calls, routed, raised, loop_errors>>

\* The done callback request() attached to the future
cancel_callback(request_id) ==
    /\ IF futures[request_id].state = "cancelled"
       THEN ready' = Append(Tail(ready),
                            [cb |-> "task",
                             message |-> NotifyMessage(CANCEL_METHOD,
                                                       [id |-> request_id])])
       ELSE ready' = Tail(ready)
    /\ UNCHANGED <<client_request_futures, server_request_futures, awaitables,
                   futures, next_id, request_calls, sent, handler_calls,
                   handled, calls, routed, raised, loop_errors>>

\* A task made by ensure_future around notify(...) or consumer(message):
\* its first step hands the message to the consumer
task_step(message) ==
    /\ sent' = Append(sent, message)
    /\ ready' = Tail(ready)
    /\ UNCHANGED <<client_request_futures, server_request_futures, awaitables,
                   futures, next_id, request_calls, handler_calls, handled,
                   calls, routed, raised, loop_errors>>

(***************************************************************************)
(* Endpoint.consume and the handlers it routes to.  Each handler sets      *)
(* raised' to the exception that leaves consume, "none" when it returns.   *)
(***************************************************************************)

\* consume returns or raises without any other effect
consume_ends(exception) ==
    /\ raised' = exception
    /\ UNCHANGED <<client_request_futures, server_request_futures, awaitables,
                   futures, next_id, request_calls, ready, sent, handler_calls,
                   handled, loop_errors>>

_handle_cancel_notification(msg_id) ==
    IF msg_id \notin client_request_futures
    THEN consume_ends("none")
    ELSE /\ client_request_futures' = client_request_futures \ {msg_id}
         /\ raised' = "none"
         /\ IF awaitables[msg_id].state # "pending"
            THEN \* cancel() of a done task or future returns False
                 UNCHANGED <<awaitables, ready>>
            ELSE IF awaitables[msg_id].kind = "task"
            THEN \* Task.cancel(): CancelledError is thrown into the
                 \* coroutine at its next step
                 /\ awaitables' = [awaitables EXCEPT ![msg_id].must_cancel = TRUE]
                 /\ UNCHANGED ready
            ELSE \* Future.cancel(): cancelled at once, callbacks scheduled
                 /\ awaitables' = [awaitables EXCEPT ![msg_id].state = "cancelled"]
                 /\ ready' = Append(ready, [cb |-> "request_callback",
                                            id |-> msg_id])
         /\ UNCHANGED <<server_request_futures, futures, next_id, request_calls,
                        sent, handler_calls, handled, loop_errors>>

_handle_notification_replies(method, params) ==
    IF method \notin Dispatcher \cup {CANCEL_METHOD}
    THEN /\ sent' = Append(sent, ErrorMessage(None,
                                   ErrorOf(JsonRpcMethodNotFoundOf(method))))
         /\ raised' = "none"
         /\ UNCHANGED <<client_request_futures, server_request_futures,
                        awaitables, futures, next_id, request_calls, ready,
                        handler_calls, handled, loop_errors>>
    ELSE consume_ends("none")

\* What leaves _handle_notification once the handler was called: a raise of
\* the handler is logged; a coroutine or a future it returns is not callable
\* and is dropped; ensure_future of a plain callable raises TypeError.
notification_outcome_propagates(h) ==
    IF h.how = "raise" THEN h.val.exc
    ELSE IF h.how = "return_callable" THEN "TypeError"
    ELSE "none"

notification_outcome(h) ==
    IF h.how = "return_callable" THEN "TypeError" ELSE "none"

_handle_notification(method, params) ==
    IF method = CANCEL_METHOD
    THEN IF params = None
         THEN consume_ends("TypeError")        \* None['id']
         ELSE IF "id" \notin DOMAIN params
         THEN consume_ends("KeyError")         \* params['id']
         ELSE _handle_cancel_notification(params.id)
    ELSE IF method \notin Dispatcher
    THEN consume_ends("none")
    ELSE \E h \in HandlerOutcomes :
            /\ handler_calls' = Append(handler_calls,
                  [method |-> method, params |-> params, how |-> h.how])
            /\ raised' = notification_outcome(h)
            /\ UNCHANGED <<client_request_futures, server_request_futures,
                           awaitables, futures, next_id, request_calls, ready,
                           sent, handled, loop_errors>>

consume_except_missing(msg_id, e) ==
    /\ raised' = e.exc
    /\ UNCHANGED <<client_request_futures, server_request_futures, awaitables,
                   futures, next_id, request_calls, ready, sent, loop_errors>>

\* The except clauses of consume around _handle_request
consume_except(msg_id, e) ==
    /\ sent' = Append(sent, ErrorMessage(msg_id, ErrorOf(e)))
    /\ raised' = "none"
    /\ UNCHANGED <<client_request_futures, server_request_futures, awaitables,
                   futures, next_id, request_calls, ready, loop_errors>>

_handle_request(msg_id, method, params) ==
    IF method \notin Dispatcher
    THEN /\ consume_except(msg_id, JsonRpcMethodNotFoundOf(method))
         /\ handled' = [handled EXCEPT ![msg_id] =
                           [how |-> "not_found", val |-> None]]
         /\ UNCHANGED handler_calls
    ELSE \E h \in HandlerOutcomes :
            /\ handler_calls' = Append(handler_calls,
                  [method |-> method, params |-> params, how |-> h.how])
            /\ handled' = [handled EXCEPT ![msg_id] = h]
            /\ CASE h.how = "raise" -> consume_except(msg_id, h.val)
                 [] h.how = "return_callable" ->
                      \* ensure_future raises TypeError before the map is written
                      consume_except(msg_id, PyException("TypeError"))
                 [] h.how \in {"return_coroutine", "return_future"} ->
                      /\ awaitables' = [awaitables EXCEPT ![msg_id] =
                            [kind |-> IF h.how = "return_coroutine"
                                      THEN "task" ELSE "future",
                             state |-> "pending", val |-> None,
                             must_cancel |-> FALSE]]
                      /\ client_request_futures' =
                             client_request_futures \cup {msg_id}
                      /\ raised' = "none"
                      /\ UNCHANGED <<server_request_futures, futures, next_id,
                                     request_calls, ready, sent, loop_errors>>
                 [] h.how = "return_value" ->
                      /\ sent' = Append(sent, ResultMessage(msg_id, h.val))
                      /\ raised' = "none"
                      /\ UNCHANGED <<client_request_futures,
                                     server_request_futures, awaitables, futures,
                                     next_id, request_calls, ready, loop_errors>>

\* set_exception or set_result, as _handle_response chooses
response_outcome_ignores_error(result, error) ==
    [state |-> "result", val |-> result]

response_outcome_drops_result(result, error) ==
    IF error # None
    THEN [state |-> "exception", val |-> from_dict(error)]
    ELSE [state |-> "result", val |-> None]

response_outcome(result, error) ==
    IF error # None
    THEN [state |-> "exception", val |-> from_dict(error)]
    ELSE [state |-> "result", val |-> result]

_handle_response(msg_id, result, error) ==
    IF msg_id \notin server_request_futures
    THEN consume_ends("none")
    ELSE /\ server_request_futures' = server_request_futures \ {msg_id}
         /\ IF futures[msg_id].state # "pending"
            THEN \* set_result and set_exception of a done future raise
                 /\ raised' = "InvalidStateError"
                 /\ UNCHANGED <<futures, ready>>
            ELSE /\ raised' = "none"
                 /\ futures' = [futures EXCEPT ![msg_id] =
                                   response_outcome(result, error)]
                 /\ ready' = Append(ready, [cb |-> "cancel_callback",
                                            id |-> msg_id])
         /\ UNCHANGED <<client_request_futures, awaitables, next_id,
                        request_calls, sent, handler_calls, handled, loop_errors>>

unknown_message_type_if_unversioned(message) ==
    "jsonrpc" \notin DOMAIN message

\* The test of consume for a message that is not JSON RPC 2.0
unknown_message_type(message) ==
    "jsonrpc" \notin DOMAIN message \/ message.jsonrpc # JSONRPC_VERSION

consume(message) ==
    /\ calls' = calls + 1
    /\ IF unknown_message_type(message)
       THEN /\ routed' = "ignored"
            /\ consume_ends("none")
       ELSE IF "id" \notin DOMAIN message
       THEN /\ routed' = "notification"
            /\ IF "method" \notin DOMAIN message
               THEN consume_ends("KeyError")      \* message['method']
               ELSE _handle_notification(message.method, Get(message, "params"))
       ELSE IF "method" \notin DOMAIN message
       THEN /\ routed' = "response"
            /\ _handle_response(message.id, Get(message, "result"),
                                Get(message, "error"))
       ELSE /\ routed' = "request"
            /\ _handle_request(message.id, message.method,
                               Get(message, "params"))

_request_callback_keeps_entry(request_id) ==
    LET future == awaitables[request_id] IN
    /\ IF future.state = "cancelled"
       THEN /\ loop_errors' = loop_errors \cup
                  {[id |-> request_id,
                    exc |-> IF future.kind = "task" THEN "RuntimeError"
                            ELSE "InvalidStateError"]}
            /\ ready' = Tail(ready)
       ELSE /\ ready' = Append(Tail(ready),
                  [cb |-> "task",
                   message |-> IF future.state = "result"
                               THEN ResultMessage(request_id, future.val)
                               ELSE ErrorMessage(request_id, ErrorOf(future.val))])
            /\ UNCHANGED loop_errors
    /\ UNCHANGED <<client_request_futures, server_request_futures, awaitables,
                   futures, next_id, request_calls, sent, handler_calls,
                   handled, calls, routed, raised>>

\* The done callback _handle_request attached to the handler's task or future
_request_callback(request_id) ==
    LET future == awaitables[request_id] IN
    /\ client_request_futures' = client_request_futures \ {request_id}
    /\ IF future.state = "cancelled"
       THEN \* set_exception of a cancelled future raises InvalidStateError,
            \* of a task RuntimeError: the callback ends there
            /\ loop_errors' = loop_errors \cup
                  {[id |-> request_id,
                    exc |-> IF future.kind = "task" THEN "RuntimeError"
                            ELSE "InvalidStateError"]}
            /\ ready' = Tail(ready)
       ELSE /\ ready' = Append(Tail(ready),
                  [cb |-> "task",
                   message |-> IF future.state = "result"
                               THEN ResultMessage(request_id, future.val)
                               ELSE ErrorMessage(request_id, ErrorOf(future.val))])
            /\ UNCHANGED loop_errors
    /\ UNCHANGED <<server_request_futures, awaitables, futures, next_id,
                   request_calls, sent, handler_calls, handled, calls,
                   routed, raised>>

\* The task or future of a handler completes.  A task that cancel() was
\* called on ends cancelled, unless its coroutine swallows the CancelledError.
awaitable_done(msg_id, c) ==
    /\ awaitables[msg_id].state = "pending"
    /\ awaitables' = [awaitables EXCEPT ![msg_id].state = c.state,
                                        ![msg_id].val = c.val]
    /\ ready' = Append(ready, [cb |-> "request_callback", id |-> msg_id])
    /\ UNCHANGED <<client_request_futures, server_request_futures, futures,
                   next_id, request_calls, sent, handler_calls, handled,
                   calls, routed, raised, loop_errors>>

\* Endpoint.shutdown, called while the loop is stopped: loop.close() drops the
\* callbacks that are scheduled and touches neither map nor any future.
\* (Called while the loop runs, loop.close() raises RuntimeError and changes
\* nothing.)
shutdown ==
    /\ loop_state' = "closed"
    /\ ready' = <<>>
    /\ UNCHANGED <<client_request_futures, server_request_futures, awaitables,
                   futures, next_id, request_calls, sent, handler_calls,
                   handled, calls, routed, raised, loop_errors>>

CompletionsOf(a) ==
    IF a.must_cancel
    THEN {[state |-> "cancelled", val |-> None],
          [state |-> "result", val |-> SomeResult]}
    ELSE Completions

(***************************************************************************)
(* What the peer can send.                                                 *)
(***************************************************************************)
ResponseIds == OutIds \cup {IntId(1)}

Malformed ==
    {[key |-> "value"],
     [jsonrpc |-> "1.0", id |-> id_generator(1), result |-> SomeResult],
     [jsonrpc |-> JSONRPC_VERSION]}

Notifications ==
    {NotifyMessage(m, p) : m \in Methods, p \in ParamValues}
    \cup {NotifyMessage(CANCEL_METHOD, p) :
             p \in ParamValues \cup {[id |-> k] : k \in InIds}}

\* the peer does not reuse the id of a request
Requests ==
    {RequestMessage(k, m, p) :
        k \in {j \in InIds : handled[j] = None}, m \in Methods, p \in ParamValues}

Responses ==
    {ResultMessage(k, SomeResult) : k \in ResponseIds}
    \cup {ErrorMessage(k, e) : k \in ResponseIds, e \in ErrorObjects}
    \cup {[jsonrpc |-> JSONRPC_VERSION, id |-> k] : k \in ResponseIds}

InboundMessages == Malformed \cup Notifications \cup Requests \cup Responses

(***************************************************************************)
(* The actions                                                             *)
(***************************************************************************)
\* A coroutine or a callback of the endpoint runs on its loop, and only there
OnLoop ==
    /\ loop_state = "running"
    /\ UNCHANGED <<loop_state, writer_vars, reader_vars>>

Notify ==
    /\ OnLoop
    /\ calls < MaxCalls
    /\ \E p \in ParamValues : notify("methodName", p)

Request ==
    /\ OnLoop
    /\ calls < MaxCalls
    /\ \E p \in ParamValues : request("methodName", p)

RequestReturn == OnLoop /\ \E k \in OutIds : request_return(k)

FutureCancel == OnLoop /\ \E k \in OutIds : future_cancel(k)

Consume ==
    /\ OnLoop
    /\ calls < MaxCalls
    /\ \E message \in InboundMessages : consume(message)

AwaitableDone ==
    /\ OnLoop
    /\ \E k \in InIds : \E c \in CompletionsOf(awaitables[k]) : awaitable_done(k, c)

\* The loop runs the callback at the head of its queue
RunCancelCallback ==
    /\ OnLoop
    /\ ready # <<>>
    /\ Head(ready).cb = "cancel_callback"
    /\ cancel_callback(Head(ready).id)

RunRequestCallback ==
    /\ OnLoop
    /\ ready # <<>>
    /\ Head(ready).cb = "request_callback"
    /\ _request_callback(Head(ready).id)

RunTask ==
    /\ OnLoop
    /\ ready # <<>>
    /\ Head(ready).cb = "task"
    /\ task_step(Head(ready).message)

LoopStep == RunCancelCallback \/ RunRequestCallback \/ RunTask

Shutdown ==
    /\ loop_state = "running"
    /\ shutdown
    /\ UNCHANGED <<writer_vars, reader_vars>>

Next ==
    \/ Notify
    \/ Request
    \/ RequestReturn
    \/ FutureCancel
    \/ Consume
    \/ AwaitableDone
    \/ RunCancelCallback
    \/ RunRequestCallback
    \/ RunTask

Spec == Init /\ [][Next]_vars

\* The loop keeps running the callbacks it has scheduled
FairSpec == Spec /\ WF_vars(LoopStep)

\* The endpoint and its shutdown
ShutdownNext == Next \/ Shutdown

ShutdownSpec == Init /\ [][ShutdownNext]_vars

(***************************************************************************)
(* Bytes, characters and JSON (streams.py).  A byte string and a str are   *)
(* sequences; an ASCII byte or character is the one-character string of    *)
(* it.  The character U+00E9 is "u00e9"; its UTF-8 encoding is the two     *)
(* bytes "C3" "A9".  "FF" is a byte that no UTF-8 text contains.           *)
(***************************************************************************)
RECURSIVE Concat(_)
Concat(seqs) == IF seqs = <<>> THEN <<>> ELSE Head(seqs) \o Concat(Tail(seqs))

WideChars == {"u00e9"}
Utf8Of(c) == <<"C3", "A9">>                         \* of a wide character
EscapeOf(c) == <<"\\", "u", "0", "0", "e", "9">>    \* of a wide character
NonAsciiBytes == {"C3", "A9", "FF"}

\* str.encode('utf-8')
encode(chars) ==
    Concat([n \in 1..Len(chars) |->
               IF chars[n] \in WideChars THEN Utf8Of(chars[n]) ELSE <<chars[n]>>])

\* bytes.decode('utf-8'): UnicodeDecodeError is a ValueError
RECURSIVE decode(_)
decode(bytes) ==
    IF bytes = <<>> THEN [ok |-> TRUE, val |-> <<>>]
    ELSE IF Head(bytes) \notin NonAsciiBytes
    THEN LET rest == decode(Tail(bytes)) IN
         IF rest.ok THEN [ok |-> TRUE, val |-> <<Head(bytes)>> \o rest.val]
         ELSE rest
    ELSE IF Len(bytes) >= 2 /\ SubSeq(bytes, 1, 2) = <<"C3", "A9">>
    THEN LET rest == decode(SubSeq(bytes, 3, Len(bytes))) IN
         IF rest.ok THEN [ok |-> TRUE, val |-> <<"u00e9">> \o rest.val]
         ELSE rest
    ELSE [ok |-> FALSE, exc |-> "ValueError"]

Digits == <<"0", "1", "2", "3", "4", "5", "6", "7", "8", "9">>
DigitChars == {Digits[n] : n \in 1..10}
DigitValue(c) == (CHOOSE n \in 1..10 : Digits[n] = c) - 1

\* "{}".format(n) of a natural number
RECURSIVE str(_)
str(n) == IF n < 10 THEN <<Digits[n + 1]>>
          ELSE Append(str(n \div 10), Digits[(n % 10) + 1])

RECURSIVE DigitsValue(_)
DigitsValue(s) ==
    IF s = <<>> THEN 0
    ELSE 10 * DigitsValue(SubSeq(s, 1, Len(s) - 1)) + DigitValue(s[Len(s)])

Whitespace == {" ", "\t", "\n", "\r"}

RECURSIVE lstrip(_)
lstrip(s) == IF s # <<>> /\ Head(s) \in Whitespace THEN lstrip(Tail(s)) ELSE s

RECURSIVE rstrip(_)
rstrip(s) == IF s # <<>> /\ s[Len(s)] \in Whitespace
             THEN rstrip(SubSeq(s, 1, Len(s) - 1)) ELSE s

strip(s) == rstrip(lstrip(s))

\* int(value) of a byte string: an optional sign, then digits
int(value) ==
    LET s == strip(value)
        signed == s # <<>> /\ Head(s) \in {"-", "+"}
        digits == IF signed THEN Tail(s) ELSE s
    IN IF digits # <<>> /\ \A n \in 1..Len(digits) : digits[n] \in DigitChars
       THEN [ok |-> TRUE,
             val |-> IF signed /\ Head(s) = "-" THEN 0 - DigitsValue(digits)
                     ELSE DigitsValue(digits)]
       ELSE [ok |-> FALSE, exc |-> "ValueError"]

startswith(s, prefix) ==
    Len(s) >= Len(prefix) /\ SubSeq(s, 1, Len(prefix)) = prefix

\* the places where sub occurs in s
Occurrences(s, sub) ==
    {n \in 1..(Len(s) - Len(sub) + 1) : SubSeq(s, n, n + Len(sub) - 1) = sub}

CRLF == <<"\r", "\n">>

CONTENT_LENGTH ==              \* b'Content-Length: '
    <<"C", "o", "n", "t", "e", "n", "t", "-", "L", "e", "n", "g", "t", "h",
      ":", " ">>

CONTENT_TYPE ==   \* 'Content-Type: application/vscode-jsonrpc; charset=utf8'
    <<"C", "o", "n", "t", "e", "n", "t", "-", "T", "y", "p", "e", ":", " ",
      "a", "p", "p", "l", "i", "c", "a", "t", "i", "o", "n", "/", "v", "s",
      "c", "o", "d", "e", "-", "j", "s", "o", "n", "r", "p", "c", ";", " ",
      "c", "h", "a", "r", "s", "e", "t", "=", "u", "t", "f", "8">>

(***************************************************************************)
(* json.dumps and json.loads, on the values the model sends: integers,     *)
(* strings and objects, and one Python object json cannot encode.          *)
(***************************************************************************)
JInt(n) == [i |-> n]
JStr(chars) == [s |-> chars]
JObj(members) == [o |-> members]      \* members: <<key, value>>, in order
PyObject == [py |-> "object"]         \* object(): not JSON serialisable

RECURSIVE Encodable(_)
Encodable(v) ==
    \/ "i" \in DOMAIN v
    \/ "s" \in DOMAIN v
    \/ /\ "o" \in DOMAIN v
       /\ \A n \in 1..Len(v.o) : Encodable(v.o[n][2])

dumps_char(c, args) ==
    IF c \in {"\"", "\\"} THEN <<"\\", c>>
    ELSE IF c \in WideChars /\ args.ensure_ascii THEN EscapeOf(c)
    ELSE <<c>>

dumps_string(chars, args) ==
    <<"\"">> \o Concat([n \in 1..Len(chars) |-> dumps_char(chars[n], args)])
             \o <<"\"">>

RECURSIVE dumps_value(_, _)
dumps_value(v, args) ==
    IF "i" \in DOMAIN v THEN str(v.i)
    ELSE IF "s" \in DOMAIN v THEN dumps_string(v.s, args)
    ELSE <<"{">>
         \o Concat([n \in 1..Len(v.o) |->
                (IF n > 1 THEN <<",", " ">> ELSE <<>>)
                \o dumps_string(v.o[n][1], args) \o <<":", " ">>
                \o dumps_value(v.o[n][2], args)])
         \o <<"}">>

\* json.dumps(message, **json_dumps_args): a str, or TypeError
dumps(message, args) ==
    IF Encodable(message) THEN [ok |-> TRUE, val |-> dumps_value(message, args)]
    ELSE [ok |-> FALSE, exc |-> "TypeError"]

\* The parser.  Each step returns what it parsed and the text left over.
ParseError == [ok |-> FALSE, exc |-> "ValueError"]
HexChars == DigitChars \cup {"a", "b", "c", "d", "e", "f"}

RECURSIVE parse_string(_, _)
parse_string(text, acc) ==          \* text: what follows the opening quote
    IF text = <<>> \/ Head(text) \in {"\r", "\n", "\t"} THEN ParseError
    ELSE IF Head(text) = "\"" THEN [ok |-> TRUE, val |-> acc, rest |-> Tail(text)]
    ELSE IF Head(text) # "\\" THEN parse_string(Tail(text), Append(acc, Head(text)))
    ELSE IF Len(text) >= 2 /\ text[2] \in {"\"", "\\"}
    THEN parse_string(SubSeq(text, 3, Len(text)), Append(acc, text[2]))
    ELSE IF /\ Len(text) >= 6
            /\ text[2] = "u"
            /\ \A n \in 3..6 : text[n] \in HexChars
    THEN parse_string(SubSeq(text, 7, Len(text)),
                      Append(acc, "u" \o text[3] \o text[4] \o text[5] \o text[6]))
    ELSE ParseError

RECURSIVE parse_digits(_, _)
parse_digits(text, acc) ==
    IF text # <<>> /\ Head(text) \in DigitChars
    THEN parse_digits(Tail(text), Append(acc, Head(text)))
    ELSE [ok |-> acc # <<>>, val |-> DigitsValue(acc), rest |-> text]

RECURSIVE parse_value(_)
RECURSIVE parse_members(_, _)
parse_value(text0) ==
    LET text == lstrip(text0) IN
    IF text = <<>> THEN ParseError
    ELSE IF Head(text) = "{" THEN
         LET after == lstrip(Tail(text)) IN
         IF after # <<>> /\ Head(after) = "}"
         THEN [ok |-> TRUE, val |-> JObj(<<>>), rest |-> Tail(after)]
         ELSE parse_members(after, <<>>)
    ELSE IF Head(text) = "\"" THEN
         LET r == parse_string(Tail(text), <<>>) IN
         IF r.ok THEN [ok |-> TRUE, val |-> JStr(r.val), rest |-> r.rest] ELSE r
    ELSE IF Head(text) \in DigitChars THEN
         LET r == parse_digits(text, <<>>) IN
         [ok |-> TRUE, val |-> JInt(r.val), rest |-> r.rest]
    ELSE ParseError

parse_members(text0, acc) ==        \* text0: what follows "{" or ","
    LET text == lstrip(text0) IN
    IF text = <<>> \/ Head(text) # "\"" THEN ParseError
    ELSE LET key == parse_string(Tail(text), <<>>) IN
         IF ~key.ok THEN ParseError
         ELSE LET colon == lstrip(key.rest) IN
              IF colon = <<>> \/ Head(colon) # ":" THEN ParseError
              ELSE LET value == parse_value(Tail(colon)) IN
                   IF ~value.ok THEN ParseError
                   ELSE LET members == Append(acc, <<key.val, value.val>>)
                            next == lstrip(value.rest)
                        IN IF next = <<>> THEN ParseError
                           ELSE IF Head(next) = "}"
                           THEN [ok |-> TRUE, val |-> JObj(members),
                                 rest |-> Tail(next)]
                           ELSE IF Head(next) = ","
                           THEN parse_members(Tail(next), members)
                           ELSE ParseError

\* json.loads(text): the value, or ValueError
loads(text) ==
    LET r == parse_value(text) IN
    IF r.ok /\ lstrip(r.rest) = <<>> THEN [ok |-> TRUE, val |-> r.val]
    ELSE ParseError

\* A frame on the wire: the Content-Length header with the number of bytes
\* of the body, the Content-Type header, an empty line, the body
Framed(body) ==
    CONTENT_LENGTH \o str(Len(body)) \o CRLF \o CONTENT_TYPE \o CRLF \o CRLF
    \o body

\* The frame of an encodable message: its body is the UTF-8 encoded JSON text
FrameOf(message, args) == Framed(encode(dumps_value(message, args)))

\* A frame that announces one byte more than the peer sends of it
FramedShort(body) ==
    CONTENT_LENGTH \o str(Len(body) + 1) \o CRLF \o CRLF \o body

\* The same frame with its two header lines in the other order
FramedTypeFirst(body) ==
    CONTENT_TYPE \o CRLF \o CONTENT_LENGTH \o str(Len(body)) \o CRLF \o CRLF
    \o body

(***************************************************************************)
(* JsonRpcStreamWriter (pyls_jsonrpc/streams.py on asyncio; jsonrpc/       *)
(* streams.py on threads).  Each caller calls write() or close() once.     *)
(***************************************************************************)
ASCII_MESSAGE == JObj(<< <<<<"a">>, JInt(1)>> >>)             \* {"a": 1}
WIDE_MESSAGE == JObj(<< <<<<"b">>, JStr(<<"u00e9">>)>> >>)    \* {"b": "é"}
WriterMessages == {ASCII_MESSAGE, WIDE_MESSAGE, PyObject}

Packages == {"pyls_jsonrpc", "jsonrpc"}
JsonDumpsArgs == {[ensure_ascii |-> TRUE], [ensure_ascii |-> FALSE]}

\* len(body.encode('utf-8')): body is a str
content_length_of(body) == Len(encode(body))

\* The try block of write(): the bytes it hands to wfile.write, and the
\* exception its except clause logs.  In pyls_jsonrpc the str that json.dumps
\* returned is handed to run_in_executor as the function to run: awaiting it
\* raises TypeError ('str' object is not callable) before anything is written.
write_try(package, message, args) ==
    LET body == dumps(message, args) IN
    IF ~body.ok THEN [wrote |-> <<>>, exc |-> body.exc]
    ELSE IF package = "pyls_jsonrpc" THEN [wrote |-> <<>>, exc |-> "TypeError"]
    ELSE LET response == CONTENT_LENGTH \o str(content_length_of(body.val))
                         \o CRLF \o CONTENT_TYPE \o CRLF \o CRLF \o body.val
         IN [wrote |-> encode(response), exc |-> "none"]

\* write(message) is called: it goes for the lock
write_call(p, message) ==
    /\ write_calls[p].pc = "idle"
    /\ write_calls' = [write_calls EXCEPT ![p] =
          [pc |-> "waiting", op |-> "write", message |-> message,
           contended |-> wfile_lock # 0, raised |-> "none"]]
    /\ lock_waiters' = Append(lock_waiters, p)
    /\ UNCHANGED <<variant, json_dumps_args, wfile, wfile_closed, wfile_lock,
                   lock_order>>

close_call(p) ==
    /\ write_calls[p].pc = "idle"
    /\ write_calls' = [write_calls EXCEPT ![p] =
          [pc |-> "waiting", op |-> "close", message |-> None,
           contended |-> wfile_lock # 0, raised |-> "none"]]
    /\ lock_waiters' = Append(lock_waiters, p)
    /\ UNCHANGED <<variant, json_dumps_args, wfile, wfile_closed, wfile_lock,
                   lock_order>>

Without(waiters, p) == SelectSeq(waiters, LAMBDA q : q # p)

\* A caller may take the lock whatever its holder
may_acquire_unlocked(p) == TRUE

\* asyncio.Lock wakes its waiters first come first served; threading.Lock
\* lets any waiter in
may_acquire(p) ==
    /\ wfile_lock = 0
    /\ variant = "pyls_jsonrpc" => Head(lock_waiters) = p

acquire(p) ==
    /\ write_calls[p].pc = "waiting"
    /\ may_acquire(p)
    /\ wfile_lock' = p
    /\ lock_waiters' = Without(lock_waiters, p)
    /\ lock_order' = Append(lock_order, p)
    /\ write_calls' = [write_calls EXCEPT ![p].pc = "locked"]
    /\ UNCHANGED <<variant, json_dumps_args, wfile, wfile_closed>>

\* Leaving the with block, by return or at its end, releases the lock
release(p) == wfile_lock' = 0

\* write() returns with the lock still held
write_on_closed_keeps_lock(p) ==
    /\ write_calls' = [write_calls EXCEPT ![p].pc = "returned"]
    /\ UNCHANGED <<wfile, wfile_lock>>

\* write() finds the stream closed or closing: the return leaves the with
\* block
write_on_closed(p) ==
    /\ release(p)
    /\ write_calls' = [write_calls EXCEPT ![p].pc = "returned"]
    /\ UNCHANGED wfile

\* write(), holding the lock: the check of the stream, then the try block up
\* to its end (jsonrpc) or to the await of the executor (pyls_jsonrpc)
write_body(p) ==
    /\ write_calls[p].pc = "locked"
    /\ write_calls[p].op = "write"
    /\ IF wfile_closed
       THEN write_on_closed(p)
       ELSE IF variant = "pyls_jsonrpc"
               /\ dumps(write_calls[p].message, json_dumps_args).ok
       THEN /\ write_calls' = [write_calls EXCEPT ![p].pc = "in_executor"]
            /\ UNCHANGED <<wfile, wfile_lock>>
       ELSE /\ wfile' = wfile \o write_try(variant, write_calls[p].message,
                                           json_dumps_args).wrote
            /\ release(p)
            /\ write_calls' = [write_calls EXCEPT ![p].pc = "returned"]
    /\ UNCHANGED <<variant, json_dumps_args, wfile_closed, lock_waiters,
                   lock_order>>

\* pyls_jsonrpc: write() resumes from the await of the executor
write_resume(p) ==
    /\ write_calls[p].pc = "in_executor"
    /\ wfile' = wfile \o write_try(variant, write_calls[p].message,
                                   json_dumps_args).wrote
    /\ release(p)
    /\ write_calls' = [write_calls EXCEPT ![p].pc = "returned"]
    /\ UNCHANGED <<variant, json_dumps_args, wfile_closed, lock_waiters,
                   lock_order>>

\* close(), holding the lock
close_body(p) ==
    /\ write_calls[p].pc = "locked"
    /\ write_calls[p].op = "close"
    /\ wfile_closed' = TRUE
    /\ release(p)
    /\ write_calls' = [write_calls EXCEPT ![p].pc = "returned"]
    /\ UNCHANGED <<variant, json_dumps_args, wfile, lock_waiters, lock_order>>

WriterInit ==
    /\ EndpointInit
    /\ variant \in Packages
    /\ json_dumps_args \in JsonDumpsArgs
    /\ WriterAtRest
    /\ stream = <<>>
    /\ ReaderAtRest

WriterOnly == UNCHANGED <<endpoint_vars, reader_vars>>

WriteCall ==
    \E p \in WriteCallers : \E message \in WriterMessages :
        write_call(p, message) /\ WriterOnly

CloseCall == \E p \in WriteCallers : close_call(p) /\ WriterOnly

Acquire == \E p \in WriteCallers : acquire(p) /\ WriterOnly

WriteBody == \E p \in WriteCallers : write_body(p) /\ WriterOnly

WriteResume == \E p \in WriteCallers : write_resume(p) /\ WriterOnly

CloseBody == \E p \in WriteCallers : close_body(p) /\ WriterOnly

WriterNext ==
    \/ WriteCall
    \/ CloseCall
    \/ Acquire
    \/ WriteBody
    \/ WriteResume
    \/ CloseBody

WriterSpec == WriterInit /\ [][WriterNext]_vars

(***************************************************************************)
(* JsonRpcStreamReader (pyls_jsonrpc/streams.py) on an asyncio.StreamReader.*)
(* The peer's bytes arrive in chunks of any size while listen() is         *)
(* suspended in readline() or read(), or before it is called; the tasks of *)
(* the consumer run then too.                                              *)
(***************************************************************************)
ReaderMessages == {ASCII_MESSAGE, WIDE_MESSAGE}

\* What a peer can send, part by part
Parts ==
    {[kind |-> "frame", message |-> m] : m \in ReaderMessages}
    \cup {[kind |-> "written", package |-> "pyls_jsonrpc", message |-> m] :
             m \in ReaderMessages}
    \cup {[kind |-> "type_first", message |-> m] : m \in ReaderMessages}
    \cup {[kind |-> k] : k \in {"bad_json", "bad_utf8", "non_integer_length",
                                "missing_length", "garbage"}}

\* What a peer that stops in the middle of a frame has sent of it
CutParts ==
    {[kind |-> "short_body", message |-> m] : m \in ReaderMessages}
    \cup {[kind |-> "no_empty_line"]}

PartBytes(part, args) ==
    CASE part.kind = "frame" -> FrameOf(part.message, args)
      [] part.kind = "written" ->
            write_try(part.package, part.message, args).wrote
      [] part.kind = "type_first" ->
            FramedTypeFirst(encode(dumps_value(part.message, args)))
      [] part.kind = "short_body" ->
            FramedShort(encode(dumps_value(part.message, args)))
      [] part.kind = "no_empty_line" ->
            CONTENT_LENGTH \o str(2) \o CRLF \o CONTENT_TYPE \o CRLF
      [] part.kind = "bad_json" ->
            Framed(<<"{", "h", "e", "l", "l", "o", "}", "}">>)
      [] part.kind = "bad_utf8" -> Framed(<<"\"", "FF", "\"">>)
      [] part.kind = "non_integer_length" ->
            CONTENT_LENGTH \o <<"a", "b", "c">> \o CRLF \o CRLF \o <<"{", "}">>
      [] part.kind = "missing_length" ->
            CONTENT_TYPE \o CRLF \o CRLF \o <<"{", "}">>
      [] part.kind = "garbage" ->
            <<"H", "e", "l", "l", "o", " ", "w", "o", "r", "l", "d">>

Streams == UNION {[1..n -> Parts] : n \in 0..MaxParts}

\* Inputs that end, whole or cut short, after a few parts
EndingStreams == UNION {[1..n -> Parts \cup CutParts] : n \in 0..MaxCutParts}

StreamBytes(parts, args) ==
    Concat([n \in 1..Len(parts) |-> PartBytes(parts[n], args)])

\* StreamReader.at_eof()
at_eof(buffer) == rfile_eof /\ buffer = <<>>

\* StreamReader.readline(): up to the first newline, or what is left at EOF
HasLine == \E n \in DOMAIN rfile : rfile[n] = "\n"
LineEnd ==
    IF HasLine THEN CHOOSE n \in DOMAIN rfile :
                        /\ rfile[n] = "\n"
                        /\ \A k \in 1..(n - 1) : rfile[k] # "\n"
    ELSE Len(rfile)
readline == SubSeq(rfile, 1, LineEnd)
after_readline == SubSeq(rfile, LineEnd + 1, Len(rfile))

\* StreamReader.read(n): at most n bytes of what has arrived; all of it up to
\* EOF when n is negative
ReadEnd(n) == IF n < 0 \/ n > Len(rfile) THEN Len(rfile) ELSE n
read(n) == SubSeq(rfile, 1, ReadEnd(n))
after_read(n) == SubSeq(rfile, ReadEnd(n) + 1, Len(rfile))

\* listen() is suspended: the call it awaits waits for data
Suspended ==
    \/ /\ listen_pc \in {"readline_first", "readline_header"}
       /\ ~HasLine
       /\ ~rfile_eof
    \/ /\ listen_pc = "read_body"
       /\ content_length # None
       /\ ~rfile_eof
       /\ \/ content_length.n < 0
          \/ content_length.n > 0 /\ rfile = <<>>

\* _content_length(line): the length, None, or ValueError
_content_length(header) ==
    IF startswith(header, CONTENT_LENGTH)
    THEN IF Cardinality(Occurrences(header, CONTENT_LENGTH)) # 1
         THEN [ok |-> FALSE, exc |-> "ValueError"]   \* _, value = ...: unpack
         ELSE LET value == int(SubSeq(header, Len(CONTENT_LENGTH) + 1,
                                      Len(header)))
              IN IF value.ok THEN [ok |-> TRUE, val |-> [n |-> value.val]]
                 ELSE value
    ELSE [ok |-> TRUE, val |-> None]

\* The while test of listen(), then _read_message up to its first await
listen_loop(buffer) ==
    IF at_eof(buffer) THEN "returned" ELSE "readline_first"

\* ensure_future(message_consumer(json.loads(request_str.decode('utf-8')))):
\* the consumer is a coroutine function, its task starts pending
deliver(body) ==
    LET text == decode(body)
        message == IF text.ok THEN loads(text.val) ELSE text
    IN IF message.ok
       THEN Append(consumed, [message |-> message.val, done |-> FALSE])
       ELSE consumed                 \* except ValueError: continue

\* listen() from the point where _read_message returned or raised, with
\* buffer what the stream still holds, up to the next await
listen_continue(outcome, buffer) ==
    IF outcome.how = "raise" /\ outcome.exc # "ValueError"
    THEN /\ listen_pc' = "raised"
         /\ listen_raised' = outcome.exc
         /\ UNCHANGED <<request_str, consumed>>
    ELSE IF outcome.how = "raise" /\ at_eof(buffer)
    THEN /\ listen_pc' = "returned"
         /\ UNCHANGED <<request_str, consumed, listen_raised>>
    ELSE LET value == IF outcome.how = "raise" THEN request_str
                      ELSE outcome.val
         IN /\ request_str' = value
            /\ IF value = Unbound
               THEN /\ listen_pc' = "raised"
                    /\ listen_raised' = "UnboundLocalError"
                    /\ UNCHANGED consumed
               ELSE IF value = None
               THEN /\ listen_pc' = "returned"
                    /\ UNCHANGED <<consumed, listen_raised>>
               ELSE /\ consumed' = deliver(value.bytes)
                    /\ listen_pc' = listen_loop(buffer)
                    /\ UNCHANGED listen_raised

\* listen(message_consumer) is called
listen ==
    /\ listen_pc = "idle"
    /\ listen_pc' = listen_loop(rfile)
    /\ UNCHANGED <<close_raised, stream, unfed, rfile, rfile_eof,
                   content_length, request_str, consumed, listen_raised>>

\* _read_message resumes with its first line
read_first_line ==
    /\ listen_pc = "readline_first"
    /\ ~Suspended
    /\ rfile' = after_readline
    /\ IF readline = <<>>
       THEN /\ listen_continue([how |-> "return", val |-> None], after_readline)
            /\ UNCHANGED content_length
       ELSE IF ~_content_length(readline).ok
       THEN /\ listen_continue([how |-> "raise",
                                exc |-> _content_length(readline).exc],
                               after_readline)
            /\ UNCHANGED content_length
       ELSE /\ content_length' = _content_length(readline).val
            /\ listen_pc' = IF strip(readline) # <<>> THEN "readline_header"
                            ELSE "read_body"
            /\ UNCHANGED <<request_str, consumed, listen_raised>>
    /\ UNCHANGED <<close_raised, stream, unfed, rfile_eof>>

\* _read_message resumes with one more header line
read_header_line ==
    /\ listen_pc = "readline_header"
    /\ ~Suspended
    /\ rfile' = after_readline
    /\ IF readline = <<>>
       THEN listen_continue([how |-> "return", val |-> None], after_readline)
       ELSE /\ listen_pc' = IF strip(readline) # <<>> THEN "readline_header"
                            ELSE "read_body"
            /\ UNCHANGED <<request_str, consumed, listen_raised>>
    /\ UNCHANGED <<close_raised, stream, unfed, rfile_eof, content_length>>

\* _read_message resumes with the body; read(None) raises TypeError
read_content ==
    /\ listen_pc = "read_body"
    /\ ~Suspended
    /\ IF content_length = None
       THEN /\ listen_continue([how |-> "raise", exc |-> "TypeError"], rfile)
            /\ UNCHANGED rfile
       ELSE /\ rfile' = after_read(content_length.n)
            /\ listen_continue([how |-> "return",
                                val |-> [bytes |-> read(content_length.n)]],
                               after_read(content_length.n))
    /\ UNCHANGED <<close_raised, stream, unfed, rfile_eof, content_length>>

\* listen() lets other work run, or has not been called yet
Yielded == listen_pc = "idle" \/ Suspended

\* n more bytes of the peer arrive
feed_data(n) ==
    /\ Yielded
    /\ rfile' = rfile \o SubSeq(unfed, 1, n)
    /\ unfed' = SubSeq(unfed, n + 1, Len(unfed))
    /\ UNCHANGED <<close_raised, stream, rfile_eof, listen_pc, content_length,
                   request_str, consumed, listen_raised>>

\* the peer has sent everything and closes
feed_eof ==
    /\ Yielded
    /\ unfed = <<>>
    /\ ~rfile_eof
    /\ rfile_eof' = TRUE
    /\ UNCHANGED <<close_raised, stream, unfed, rfile, listen_pc, content_length,
                   request_str, consumed, listen_raised>>

\* a task of the consumer runs to its end
consumer_done(n) ==
    /\ Suspended \/ listen_pc \in {"returned", "raised"}
    /\ ~consumed[n].done
    /\ consumed' = [consumed EXCEPT ![n].done = TRUE]
    /\ UNCHANGED <<close_raised, stream, unfed, rfile, rfile_eof, listen_pc,
                   content_length, request_str, listen_raised>>

\* close() is called on the reader: __init__ stored False under the name
\* close, which hides the method, so the call raises and feeds no EOF
reader_close ==
    /\ Yielded \/ listen_pc \in {"returned", "raised"}
    /\ close_raised = "none"
    /\ close_raised' = "TypeError"
    /\ UNCHANGED <<stream, unfed, rfile, rfile_eof, listen_pc, content_length,
                   request_str, consumed, listen_raised>>

ReaderInit ==
    /\ EndpointInit
    /\ variant = "pyls_jsonrpc"
    /\ json_dumps_args \in JsonDumpsArgs
    /\ WriterAtRest
    /\ stream \in Streams
    /\ unfed = StreamBytes(stream, json_dumps_args)
    /\ rfile = <<>>
    /\ rfile_eof = FALSE
    /\ listen_pc = "idle"
    /\ content_length = Unbound
    /\ request_str = Unbound
    /\ consumed = <<>>
    /\ listen_raised = "none"
    /\ close_raised = "none"

ReaderOnly == UNCHANGED <<endpoint_vars, writer_vars>>

Listen == listen /\ ReaderOnly

ReadFirstLine == read_first_line /\ ReaderOnly

ReadHeaderLine == read_header_line /\ ReaderOnly

ReadContent == read_content /\ ReaderOnly

FeedData == \E n \in 1..Len(unfed) : feed_data(n) /\ ReaderOnly

FeedEof == feed_eof /\ ReaderOnly

ConsumerDone == \E n \in DOMAIN consumed : consumer_done(n) /\ ReaderOnly

ReaderClose == reader_close /\ ReaderOnly

ReaderNext ==
    \/ Listen
    \/ ReadFirstLine
    \/ ReadHeaderLine
    \/ ReadContent
    \/ FeedData
    \/ FeedEof
    \/ ConsumerDone

ReaderSpec == ReaderInit /\ [][ReaderNext]_vars

\* The reader with a caller of close(), on inputs that end early
EndOfInputInit ==
    /\ EndpointInit
    /\ variant = "pyls_jsonrpc"
    /\ json_dumps_args \in JsonDumpsArgs
    /\ WriterAtRest
    /\ stream \in EndingStreams
    /\ unfed = StreamBytes(stream, json_dumps_args)
    /\ rfile = <<>>
    /\ rfile_eof = FALSE
    /\ listen_pc = "idle"
    /\ content_length = Unbound
    /\ request_str = Unbound
    /\ consumed = <<>>
    /\ listen_raised = "none"
    /\ close_raised = "none"

EndOfInputNext == ReaderNext \/ ReaderClose

EndOfInputSpec == EndOfInputInit /\ [][EndOfInputNext]_vars

(***************************************************************************)
(* Vocabulary of the properties                                            *)
(***************************************************************************)
IsResponse(message) == "result" \in DOMAIN message \/ "error" \in DOMAIN message

\* positions in sent of the responses carrying id k
ResponsesTo(k) == {n \in DOMAIN sent : IsResponse(sent[n]) /\ sent[n].id = k}

\* positions in sent of the $/cancelRequest notifications for id k
CancelRequestsFor(k) ==
    {n \in DOMAIN sent : sent[n] = [jsonrpc |-> "2.0", method |-> "$/cancelRequest",
                                    params |-> [id |-> k]]}

\* the loop still holds a callback or a task on behalf of inbound request k
Scheduled(k) ==
    \E n \in DOMAIN ready :
        \/ ready[n].cb = "request_callback" /\ ready[n].id = k
        \/ /\ ready[n].cb = "task"
           /\ IsResponse(ready[n].message)
           /\ ready[n].message.id = k

\* request k was consumed and nothing more will happen on its behalf
Settled(k) ==
    /\ handled[k] # None
    /\ awaitables[k].state # "pending"
    /\ ~Scheduled(k)

(***************************************************************************)
(* C1: every inbound request gets exactly one response carrying its id,    *)
(* whichever path its handler takes: never two responses, and exactly one  *)
(* once the handling of the request has run to its end.                    *)
(***************************************************************************)
C1_ExactlyOneResponse ==
    \A k \in InIds :
        /\ Cardinality(ResponsesTo(k)) <= 1
        /\ Settled(k) => Cardinality(ResponsesTo(k)) = 1

(***************************************************************************)
(* C2: consuming a notification hands no response to the consumer: the     *)
(* call itself hands it nothing, a notification other than $/cancelRequest *)
(* schedules nothing, and every response handed over or scheduled carries  *)
(* the id of a request that was consumed.                                  *)
(***************************************************************************)
ResponsesAnswerRequests ==
    /\ \A n \in DOMAIN sent :
          IsResponse(sent[n]) => sent[n].id \in InIds /\ handled[sent[n].id] # None
    /\ \A n \in DOMAIN ready :
          (ready[n].cb = "task" /\ IsResponse(ready[n].message))
             => /\ ready[n].message.id \in InIds
                /\ handled[ready[n].message.id] # None

C2_NotificationStep ==
    \A m \in Notifications :
        consume(m) => /\ sent' = sent
                      /\ m.method # CANCEL_METHOD => ready' = ready

C2_NoResponseToNotification ==
    [][C2_NotificationStep /\ ResponsesAnswerRequests']_vars

C2_Witness ==
    /\ routed = "notification"
    /\ raised = "none"
    /\ Len(handler_calls) = 1
    /\ sent = <<>>

(***************************************************************************)
(* C3: an outbound request whose future is cancelled while pending has     *)
(* exactly one $/cancelRequest notification with params {id} handed to the *)
(* consumer: never two, and eventually one.                                *)
(***************************************************************************)
C3_CancelSentExactlyOnce ==
    \A k \in OutIds :
        /\ [](Cardinality(CancelRequestsFor(k)) <= 1)
        /\ (futures[k].state = "cancelled")
              ~> (Cardinality(CancelRequestsFor(k)) = 1)

C3_Witness ==
    \E k \in OutIds :
        /\ futures[k].state = "cancelled"
        /\ Cardinality(CancelRequestsFor(k)) = 1
        /\ ready = <<>>

(***************************************************************************)
(* C4: once the task of inbound request R has been cancelled by a          *)
(* $/cancelRequest and its handling has run to its end, the consumer has   *)
(* been handed the response {id: R, error: RequestCancelled (-32800)}.     *)
(***************************************************************************)
C4_CancelledRequestAnswered ==
    \A k \in InIds :
        (awaitables[k].state = "cancelled" /\ Settled(k))
           => \E n \in ResponsesTo(k) :
                 /\ "error" \in DOMAIN sent[n]
                 /\ sent[n].error.code = REQUEST_CANCELLED

(***************************************************************************)
(* C5: consume never raises to its caller, whatever the message.           *)
(***************************************************************************)
C5_ConsumeNeverRaises == raised = "none"

(***************************************************************************)
(* C6: consuming a response whose id is not a pending outbound request     *)
(* (never issued, already completed by a response, or cancelled by the     *)
(* caller) raises nothing, hands nothing to the consumer, schedules        *)
(* nothing and leaves every future as it was.                              *)
(***************************************************************************)
NotPendingId(k) == k \notin OutIds \/ futures[k].state # "pending"

C6_Step ==
    \A m \in Responses :
        (NotPendingId(m.id) /\ consume(m))
           => /\ raised' = "none"
              /\ sent' = sent
              /\ ready' = ready
              /\ futures' = futures

C6_LateResponseDiscarded == [][C6_Step]_vars

(***************************************************************************)
(* C7: request(method, params) hands the consumer exactly one message      *)
(* {jsonrpc: "2.0", id: <generated id>, method, params} (params left out   *)
(* when None) and creates a pending future; the future it returns is not   *)
(* done unless a response with that id was consumed while request() was    *)
(* awaiting the consumer; a response with that id and a result v consumed  *)
(* while the future is pending resolves it to v.                           *)
(***************************************************************************)
C7_RequestStep ==
    \A p \in ParamValues :
        request("methodName", p)
           => /\ sent' = Append(sent,
                    IF p = None
                    THEN [jsonrpc |-> "2.0", id |-> id_generator(next_id),
                          method |-> "methodName"]
                    ELSE [jsonrpc |-> "2.0", id |-> id_generator(next_id),
                          method |-> "methodName", params |-> p])
              /\ futures'[id_generator(next_id)] = [state |-> "pending", val |-> None]

C7_ReturnStep ==
    \A k \in OutIds :
        (request_return(k) /\ Done(futures[k]))
           => /\ futures[k].state \in {"result", "exception"}
              /\ k \notin server_request_futures

C7_ResponseStep ==
    \A k \in OutIds :
        (futures[k].state = "pending" /\ consume(ResultMessage(k, SomeResult)))
           => futures'[k] = [state |-> "result", val |-> SomeResult]

C7_RequestThenResponse ==
    [][C7_RequestStep /\ C7_ReturnStep /\ C7_ResponseStep]_vars

C7_Witness ==
    \E k \in OutIds :
        /\ request_calls[k] = [pc |-> "returned", done_at_return |-> FALSE]
        /\ futures[k] = [state |-> "result", val |-> SomeResult]

\* C7 as claimed: the returned future is never done, and a response with the
\* id of a request that was made and a result v always resolves the future to v.
C7_ReturnStepAsClaimed ==
    \A k \in OutIds : request_return(k) => ~Done(futures[k])

C7_ResponseStepAsClaimed ==
    \A k \in OutIds :
        (request_calls[k].pc = "returned" /\ consume(ResultMessage(k, SomeResult)))
           => futures'[k] = [state |-> "result", val |-> SomeResult]

C7_AsClaimed ==
    [][C7_RequestStep /\ C7_ReturnStepAsClaimed /\ C7_ResponseStepAsClaimed]_vars

(***************************************************************************)
(* C8: a response carrying the error object of a typed error e, consumed   *)
(* for a pending outbound request id, rejects the future with an error of  *)
(* the same kind, code, message and data as e; it is not resolved.         *)
(***************************************************************************)
C8_Step ==
    \A k \in OutIds : \A e \in PeerErrors :
        (/\ k \in server_request_futures
         /\ futures[k].state = "pending"
         /\ consume([jsonrpc |-> "2.0", id |-> k, error |-> to_dict(e)]))
           => futures'[k] = [state |-> "exception", val |-> e]

C8_ErrorResponseRejects == [][C8_Step]_vars

C8_Witness ==
    \E k \in OutIds :
        /\ futures[k].state = "exception"
        /\ futures[k].val.exc = "JsonRpcInvalidRequest"
        /\ futures[k].val.data = SomeData

(***************************************************************************)
(* C9: when the handler of an inbound request fails, by raising or by its  *)
(* awaitable failing, the response for that id is single and carries an    *)
(* error and no result: the code and message of the typed error the        *)
(* handler raised, or code -32603 (InternalError) for any other exception. *)
(***************************************************************************)
Failure(k) ==
    IF handled[k] # None /\ handled[k].how = "raise" THEN handled[k].val
    ELSE IF awaitables[k].state = "exception" THEN awaitables[k].val
    ELSE None

C9_HandlerFailureAnswered ==
    \A k \in InIds :
        Failure(k) # None
           => /\ Cardinality(ResponsesTo(k)) <= 1
              /\ Settled(k) => Cardinality(ResponsesTo(k)) = 1
              /\ \A n \in ResponsesTo(k) :
                    /\ "error" \in DOMAIN sent[n]
                    /\ "result" \notin DOMAIN sent[n]
                    /\ IF IsJsonRpcException(Failure(k))
                       THEN /\ sent[n].error.code = Failure(k).code
                            /\ sent[n].error.message = Failure(k).message
                       ELSE sent[n].error.code = -32603

C9_Witness ==
    \E k \in InIds :
        /\ awaitables[k].state = "exception"
        /\ IsJsonRpcException(awaitables[k].val)
        /\ Cardinality(ResponsesTo(k)) = 1

(***************************************************************************)
(* C10: a request whose method the dispatcher does not have is answered,   *)
(* in the consume call itself, by one response with its id and a           *)
(* MethodNotFound error (-32601), and by no other response afterwards; no  *)
(* handler is called and clientRequests is left alone.                     *)
(***************************************************************************)
C10_Step ==
    \A m \in Requests :
        (m.method \notin Dispatcher /\ consume(m))
           => /\ Len(sent') = Len(sent) + 1
              /\ SubSeq(sent', 1, Len(sent)) = sent
              /\ sent'[Len(sent')].id = m.id
              /\ "error" \in DOMAIN sent'[Len(sent')]
              /\ sent'[Len(sent')].error.code = -32601
              /\ handler_calls' = handler_calls
              /\ client_request_futures' = client_request_futures
              /\ awaitables' = awaitables
              /\ ready' = ready

C10_AnsweredOnce ==
    \A k \in InIds :
        (handled[k] # None /\ handled[k].how = "not_found")
           => Cardinality(ResponsesTo(k)) = 1

C10_MethodNotFound == [][C10_Step /\ C10_AnsweredOnce']_vars

C10_Witness ==
    \E k \in InIds :
        /\ handled[k] # None
        /\ handled[k].how = "not_found"
        /\ Cardinality(ResponsesTo(k)) = 1
        /\ handler_calls = <<>>
        /\ client_request_futures = {}

(***************************************************************************)
(* C11: consuming a notification other than $/cancelRequest whose method   *)
(* is unknown, or whose handler raises or returns an awaitable (which may  *)
(* fail later), returns normally; the handler is called at most once, with *)
(* the params received; nothing is handed to the consumer or scheduled,    *)
(* and both request maps and their futures are left as they were.          *)
(***************************************************************************)
C11_Failures == {"raise", "return_coroutine", "return_future"}

C11_Step ==
    \A m \in Notifications :
        (/\ m.method # CANCEL_METHOD
         /\ consume(m)
         /\ \/ m.method \notin Dispatcher
            \/ handler_calls'[Len(handler_calls')].how \in C11_Failures)
           => /\ raised' = "none"
              /\ sent' = sent
              /\ ready' = ready
              /\ client_request_futures' = client_request_futures
              /\ server_request_futures' = server_request_futures
              /\ awaitables' = awaitables
              /\ futures' = futures
              /\ IF m.method \in Dispatcher
                 THEN /\ Len(handler_calls') = Len(handler_calls) + 1
                      /\ SubSeq(handler_calls', 1, Len(handler_calls))
                            = handler_calls
                      /\ handler_calls'[Len(handler_calls')].method = m.method
                      /\ handler_calls'[Len(handler_calls')].params
                            = Get(m, "params")
                 ELSE handler_calls' = handler_calls

C12_ShutdownCancelsAll ==
    loop_state = "closed"
       => /\ client_request_futures = {}
          /\ server_request_futures = {}
          /\ \A k \in OutIds : futures[k].state # "pending"
          /\ \A k \in InIds : awaitables[k].state # "pending"


(***************************************************************************)
(* Vocabulary of the properties of the writer                              *)
(***************************************************************************)
\* the calls of write() with a message json can encode
EncodableWrites ==
    {p \in WriteCallers : /\ write_calls[p].op = "write"
                          /\ Encodable(write_calls[p].message)}

\* the frames of the calls in S, in the order these calls got the lock
FramesOf(S) ==
    LET order == SelectSeq(lock_order, LAMBDA p : p \in S) IN
    Concat([n \in 1..Len(order) |->
               FrameOf(write_calls[order[n]].message, json_dumps_args)])

\* the place of call p in the order of the lock, 0 before it got the lock
LockPlace(p) ==
    IF \E n \in DOMAIN lock_order : lock_order[n] = p
    THEN CHOOSE n \in DOMAIN lock_order : lock_order[n] = p
    ELSE 0

(***************************************************************************)
(* C13: whatever the number of concurrent write() calls, the bytes on the  *)
(* output stream are whole frames of written messages, one after the       *)
(* other, in the order in which their calls acquired the writer lock.      *)
(***************************************************************************)
C13_WholeFramesInLockOrder ==
    \E S \in SUBSET EncodableWrites : wfile = FramesOf(S)

C13_Witness ==
    \E p, q \in EncodableWrites :
        /\ write_calls[p].message # write_calls[q].message
        /\ write_calls[q].contended
        /\ write_calls[p].pc = "returned"
        /\ write_calls[q].pc = "returned"
        /\ lock_order = <<p, q>>
        /\ wfile = FrameOf(write_calls[p].message, json_dumps_args)
                   \o FrameOf(write_calls[q].message, json_dumps_args)

(***************************************************************************)
(* C14: a write() that finds the stream closed or closing writes no bytes, *)
(* raises nothing, returns and leaves the writer lock free; no byte is     *)
(* written to a closed stream by anyone.                                   *)
(***************************************************************************)
C14_Step ==
    /\ wfile_closed => wfile' = wfile
    /\ \A p \in WriteCallers :
          (wfile_closed /\ write_body(p))
             => /\ write_calls'[p].pc = "returned"
                /\ write_calls'[p].raised = "none"
                /\ wfile_lock' = 0

C14_WriteOnClosedIsNoOp == [][C14_Step]_vars

C14_Witness ==
    \E c, p \in WriteCallers :
        /\ write_calls[c].op = "close"
        /\ write_calls[p].op = "write"
        /\ write_calls[p].pc = "returned"
        /\ 0 < LockPlace(c)
        /\ LockPlace(c) < LockPlace(p)
        /\ wfile_closed
        /\ wfile_lock = 0

(***************************************************************************)
(* C15: a write() of a message that cannot be serialised raises nothing    *)
(* and writes no partial frame, and the writer stays usable: a later       *)
(* write() of an encodable message, on the stream still open, has put the  *)
(* whole frame of that message on the stream once it has returned.         *)
(***************************************************************************)
C15_FailedWriteLeavesWriterUsable ==
    \A p, q \in WriteCallers :
        (/\ write_calls[p].op = "write"
         /\ ~Encodable(write_calls[p].message)
         /\ write_calls[p].pc = "returned"
         /\ q \in EncodableWrites
         /\ write_calls[q].pc = "returned"
         /\ LockPlace(p) < LockPlace(q)
         /\ ~wfile_closed)
           => /\ write_calls[p].raised = "none"
              /\ \E S \in SUBSET EncodableWrites :
                    q \in S /\ wfile = FramesOf(S)

(***************************************************************************)
(* C16: a write(m) of an encodable message m on an open stream puts        *)
(* exactly one frame on the stream by the time it returns: the             *)
(* Content-Length line with the number of bytes of the UTF-8 encoded body, *)
(* the Content-Type line, an empty line, then the JSON body.               *)
(***************************************************************************)
C16_Step ==
    \A p \in EncodableWrites :
        (/\ ~wfile_closed
         /\ write_calls[p].pc # "returned"
         /\ write_calls'[p].pc = "returned")
           => wfile' = wfile \o FrameOf(write_calls[p].message, json_dumps_args)

C16_WriteEmitsOneFrame == [][C16_Step]_vars


(***************************************************************************)
(* Vocabulary of the properties of the reader                              *)
(***************************************************************************)
\* listen() has returned or raised
Finished == listen_pc \in {"returned", "raised"}

\* the messages the consumer was called with, in the order of the calls
Delivered == [n \in DOMAIN consumed |-> consumed[n].message]

IsPrefix(short, long) ==
    Len(short) <= Len(long) /\ SubSeq(long, 1, Len(short)) = short

(***************************************************************************)
(* C17: when the input of listen() is what write(m) put on the stream, for *)
(* an encodable message m, listen() raises nothing and has called the      *)
(* consumer exactly once, with a message equal to m, by the time it ends.  *)
(***************************************************************************)
C17_RoundTrip ==
    \A m \in ReaderMessages :
        stream = <<[kind |-> "written", package |-> "pyls_jsonrpc",
                    message |-> m]>>
           => /\ listen_raised = "none"
              /\ IsPrefix(Delivered, <<m>>)
              /\ Finished => Delivered = <<m>>

(***************************************************************************)
(* C18: when the input is k well-formed frames and then EOF, listen()      *)
(* raises nothing and calls the consumer with the messages of the frames   *)
(* in the order of the stream: never anything else, and with all k of them *)
(* by the time it ends.                                                    *)
(***************************************************************************)
C18_FramesDeliveredInOrder ==
    (\A n \in DOMAIN stream : stream[n].kind = "frame")
       => LET expected == [n \in DOMAIN stream |-> stream[n].message] IN
          /\ listen_raised = "none"
          /\ IsPrefix(Delivered, expected)
          /\ Finished => Delivered = expected

(***************************************************************************)
(* C19: when a frame with a valid Content-Length and a body that is not    *)
(* UTF-8 JSON is followed by a well-formed frame, listen() raises nothing, *)
(* does not call the consumer for the first and has called it with the     *)
(* message of the second by the time it ends.                              *)
(***************************************************************************)
C19_BadBodySkipped ==
    \A bad \in {"bad_json", "bad_utf8"} : \A m \in ReaderMessages :
        stream = <<[kind |-> bad], [kind |-> "frame", message |-> m]>>
           => /\ listen_raised = "none"
              /\ IsPrefix(Delivered, <<m>>)
              /\ Finished => Delivered = <<m>>

(***************************************************************************)
(* C20: when the input is made of header blocks with no Content-Length or  *)
(* a Content-Length that is not an integer, or of garbage with no header   *)
(* block, listen() never calls the consumer and never raises.              *)
(***************************************************************************)
C20_BadHeaderContained ==
    (/\ stream # <<>>
     /\ \A n \in DOMAIN stream :
           stream[n].kind \in {"non_integer_length", "missing_length",
                               "garbage"})
       => /\ listen_raised = "none"
          /\ consumed = <<>>

(***************************************************************************)
(* C21: when the input is one frame whose header block has Content-Type    *)
(* before Content-Length, then an empty line and a body of Content-Length  *)
(* bytes of valid JSON, listen() raises nothing and calls the consumer     *)
(* with the message of the frame, as it does for a frame whose first       *)
(* header line is Content-Length.                                          *)
(***************************************************************************)
C21_HeadersInAnyOrder ==
    \A m \in ReaderMessages :
        stream = <<[kind |-> "type_first", message |-> m]>>
           => /\ listen_raised = "none"
              /\ IsPrefix(Delivered, <<m>>)
              /\ Finished => Delivered = <<m>>

(***************************************************************************)
(* C22: once listen() has been called, the peer has sent all it sends and  *)
(* the input has reached EOF or the reader's close() has been called,      *)
(* listen() is not left waiting for input: it has ended or its next read   *)
(* returns at once.  And for an input that is one frame cut short by EOF   *)
(* (in its header block, or before the last byte of its body) the consumer *)
(* is never called.                                                        *)
(***************************************************************************)
CutShort(part) == part.kind \in {"short_body", "no_empty_line"}

C22_EndOfInput == unfed = <<>> /\ (rfile_eof \/ close_raised # "none")

C22_ListenTerminates ==
    /\ listen_pc # "idle" /\ C22_EndOfInput => ~Suspended
    /\ Len(stream) = 1 /\ CutShort(stream[1]) => consumed = <<>>

(***************************************************************************)
(* C23: when the handler of an inbound notification returns a coroutine,   *)
(* the consume call spawns it: a task for it is scheduled on the loop, so  *)
(* that it runs; the coroutine is never left unscheduled.                  *)
(***************************************************************************)
C23_Step ==
    \A m \in Notifications :
        (/\ m.method \in Dispatcher
         /\ consume(m)
         /\ handler_calls'[Len(handler_calls')].how = "return_coroutine")
           => /\ raised' = "none"
              /\ Len(ready') = Len(ready) + 1
              /\ SubSeq(ready', 1, Len(ready)) = ready

C23_NotificationAwaitableSpawned == [][C23_Step]_vars

(***************************************************************************)
(* C24: serverRequests holds only pending outbound requests: once the      *)
(* future of id R is done, by a response or by the caller's cancel(), and  *)
(* its done callback has run, R is not a key of serverRequests.            *)
(***************************************************************************)
DoneCallbackScheduled(k) ==
    \E n \in DOMAIN ready : ready[n] = [cb |-> "cancel_callback", id |-> k]

C24_OnlyPendingRequests ==
    \A k \in server_request_futures :
        futures[k].state = "pending" \/ DoneCallbackScheduled(k)

(***************************************************************************)
(* C25: clientRequests holds only inbound requests still executing.  Every *)
(* key of it is the id of a request whose handler returned a coroutine or  *)
(* a future that is still pending or whose done callback has yet to run,   *)
(* so that the map is empty once every handler has completed; an id is     *)
(* added only by the consume call of its request; and consuming a          *)
(* $/cancelRequest for an id leaves the map without it, so that a second   *)
(* one finds no entry.                                                     *)
(***************************************************************************)
RequestCallbackScheduled(k) ==
    \E n \in DOMAIN ready : ready[n] = [cb |-> "request_callback", id |-> k]

C25_Executing(k) ==
    /\ handled[k] # None
    /\ handled[k].how \in {"return_coroutine", "return_future"}
    /\ awaitables[k].state = "pending" \/ RequestCallbackScheduled(k)

C25_Step ==
    /\ \A k \in InIds :
          consume(NotifyMessage(CANCEL_METHOD, [id |-> k]))
             => /\ k \notin client_request_futures'
                /\ client_request_futures' = client_request_futures \ {k}
    /\ \A k \in client_request_futures' \ client_request_futures :
          \E m \in Requests : m.id = k /\ consume(m)
    /\ \A k \in client_request_futures' : C25_Executing(k)'

C25_OnlyExecutingRequests == [][C25_Step]_vars

\* a request was executing, a $/cancelRequest for it was consumed and
\* removed its entry, and it has run to its end
C25_Witness ==
    \E k \in InIds :
        /\ handled[k] # None
        /\ handled[k].how = "return_coroutine"
        /\ awaitables[k].must_cancel
        /\ Settled(k)
        /\ client_request_futures = {}
        /\ calls = 3
        /\ routed = "notification"

(***************************************************************************)
(* C26: consuming a message whose jsonrpc field is missing or is not "2.0" *)
(* changes nothing: consume returns, no handler is called, nothing is      *)
(* handed to the consumer or scheduled, and both maps and every future and *)
(* awaitable are as before, also when the message carries the id of a      *)
(* pending outbound request.                                               *)
(***************************************************************************)
C26_Step ==
    \A m \in Malformed :
        (/\ "jsonrpc" \notin DOMAIN m \/ m.jsonrpc # "2.0"
         /\ consume(m))
           => /\ raised' = "none"
              /\ handler_calls' = handler_calls
              /\ sent' = sent
              /\ ready' = ready
              /\ client_request_futures' = client_request_futures
              /\ server_request_futures' = server_request_futures
              /\ futures' = futures
              /\ awaitables' = awaitables

C26_BadVersionIgnored == [][C26_Step]_vars

\* such a message was consumed while the request it names was pending
C26_Witness ==
    /\ routed = "ignored"
    /\ id_generator(1) \in server_request_futures
    /\ futures[id_generator(1)].state = "pending"
    /\ calls = 2

(***************************************************************************)
(* C27: every response handed to the consumer carries the id of an inbound *)
(* request that was consumed before, the very value the request carried:   *)
(* a string id stays a string, an integer id an integer, and no response   *)
(* carries an id no request was received with.                             *)
(***************************************************************************)
C27_ResponseIdsPreserved ==
    \A n \in DOMAIN sent :
        IsResponse(sent[n])
           => \E k \in InIds :
                 /\ handled[k] # None
                 /\ sent[n].id = k
                 /\ DOMAIN sent[n].id = DOMAIN k

\* the request with the integer id 1 and the one with the string id "1"
\* were both answered
C27_Witness ==
    /\ ResponsesTo(IntId(1)) # {}
    /\ ResponsesTo(StrId(1)) # {}

(***************************************************************************)
(* C28: request() records its future in serverRequests before it hands the *)
(* request message to the consumer: while request() is suspended in the    *)
(* consumer its pending future is in the map, and a response with its id   *)
(* consumed then completes that future, with the result or the error the   *)
(* response carries, instead of being taken for one to an unknown id.      *)
(***************************************************************************)
Suspended_in_consumer(k) == request_calls[k].pc = "awaiting_consumer"

C28_Recorded ==
    \A k \in OutIds :
        (Suspended_in_consumer(k) /\ futures[k].state = "pending")
           => /\ k \in server_request_futures
              /\ \E n \in DOMAIN sent : "method" \in DOMAIN sent[n]
                                        /\ "id" \in DOMAIN sent[n]
                                        /\ sent[n].id = k

C28_Step ==
    \A m \in Responses :
        (/\ m.id \in OutIds
         /\ Suspended_in_consumer(m.id)
         /\ futures[m.id].state = "pending"
         /\ consume(m))
           => /\ raised' = "none"
              /\ futures'[m.id] =
                    response_outcome(Get(m, "result"), Get(m, "error"))
              /\ m.id \notin server_request_futures'

C28_RecordedBeforeSent == [][C28_Step /\ C28_Recorded']_vars

\* a response completed the future while request() was still suspended
C28_Witness ==
    \E k \in OutIds :
        /\ Suspended_in_consumer(k)
        /\ futures[k].state \in {"result", "exception"}

(***************************************************************************)
(* C29: a $/cancelRequest notification is sent, or scheduled to be sent,   *)
(* only for an outbound request whose future ended cancelled; a future     *)
(* completed by a response, with a result or an error, never causes one.   *)
(***************************************************************************)
IsCancelRequest(message) ==
    "method" \in DOMAIN message /\ message.method = "$/cancelRequest"

C29_CancelOnlyForCancelled ==
    /\ \A n \in DOMAIN sent :
          IsCancelRequest(sent[n])
             => /\ sent[n].params.id \in OutIds
                /\ futures[sent[n].params.id].state = "cancelled"
    /\ \A n \in DOMAIN ready :
          (ready[n].cb = "task" /\ IsCancelRequest(ready[n].message))
             => /\ ready[n].message.params.id \in OutIds
                /\ futures[ready[n].message.params.id].state = "cancelled"

\* the done callback of a future completed by a response has run, and that
\* of a cancelled future has sent its notification
C29_Witness ==
    \E k, j \in OutIds :
        /\ futures[k].state \in {"result", "exception"}
        /\ CancelRequestsFor(k) = {}
        /\ futures[j].state = "cancelled"
        /\ CancelRequestsFor(j) # {}
        /\ ready = <<>>

TimesDelivered(m) ==
    Cardinality({n \in DOMAIN consumed : consumed[n].message = m})

TimesFramed(m) ==
    Cardinality({n \in DOMAIN stream :
                    stream[n] = [kind |-> "frame", message |-> m]})

C31_DeliveredAtMostOnce ==
    (\A n \in DOMAIN stream :
        stream[n].kind \in {"frame", "non_integer_length"})
       => \A m \in ReaderMessages : TimesDelivered(m) <= TimesFramed(m)

====
